---- MODULE Spec2Model ----
(***************************************************************************)
(* The domain-separated sponge of src/gadgets/traits/sponge.rs: the        *)
(* provided methods of TSpongePrivate (absorb_one, squeeze_one, finalize)  *)
(* and of TSponge (absorb, squeeze, finalize), and SpongeAction::serialize.*)
(*                                                                         *)
(* The required methods of the trait (permute, add_rate_element,           *)
(* read_rate_element, initialize_capacity, tag_hasher, the cursor setters) *)
(* have no body in the source.  The model keeps them opaque: every call of *)
(* one is recorded, with its arguments, in `trace`, and a value read from  *)
(* a rate slot is named by the slot and by the number of state-changing    *)
(* calls (permute, add_rate_element, initialize_capacity) made before the  *)
(* read.  The cursors are the two fields the setters write.                *)
(***************************************************************************)
EXTENDS Integers, Sequences, FiniteSets

VARIABLES
    rate,             \* TSpongePrivate::rate(), fixed by new()
    sep,              \* serialized_domain_separator(), fixed by new()
    overflow_checks,  \* the build: TRUE when u32 `+=` panics on overflow
    absorb_pos,       \* cursor read by absorb_pos(), written by set_absorb_pos
    squeeze_pos,      \* cursor read by squeeze_pos(), written by set_squeeze_pos
    log,              \* what get_log() returns: the entries add_log appended
    trace,            \* the calls of required methods made so far, in order
    hashed,           \* the arguments tag_hasher was called with, in order
    capacity,         \* the values initialize_capacity was called with, in order
    panicked,         \* TRUE once a call has panicked
    nin,              \* number of input signals handed to absorb so far
    calls             \* the public calls made so far, each with the sponge
                      \* before it and what it returned

vars == <<rate, sep, overflow_checks, absorb_pos, squeeze_pos, log, trace,
          hashed, capacity, panicked, nin, calls>>

-----------------------------------------------------------------------------
(* Bounds of the exploration.                                              *)

\* largest rate a sponge is constructed with
MaxRate == 2
\* longest batch of one absorb or squeeze call
MaxLen == 3
\* number of public calls made on one sponge
MaxCalls == 3
\* longest action log the finalize-only specification starts from
MaxLogLen == 3

-----------------------------------------------------------------------------
(* u32 arithmetic.  A u32 is kept as two 16-bit limbs, so that the values  *)
(* around 2^31 and 2^32 are represented exactly.                           *)

\* width of the u32 that SpongeAction carries and serialize returns
WordBits == 32
\* the bit serialize reserves for the direction: `1 << 31`
TopBit == 31

LimbBits == WordBits \div 2
Limb == 2 ^ LimbBits

U32(hi, lo) == [hi |-> hi, lo |-> lo]

\* `n as u32` for a usize n: the low 32 bits
as_u32(n) == U32((n \div Limb) % Limb, n % Limb)

\* the exact sum of two words; its hi limb exceeds 16 bits when the u32 sum
\* overflows
wide_add(a, b) ==
    LET lo == a.lo + b.lo
    IN  U32(a.hi + b.hi + (lo \div Limb), lo % Limb)

Overflows(w) == w.hi >= Limb

wrap(w) == U32(w.hi % Limb, w.lo)

RECURSIVE xor_bits(_, _, _)
xor_bits(a, b, k) ==
    IF k = 0 THEN 0
    ELSE ((a + b) % 2) + 2 * xor_bits(a \div 2, b \div 2, k - 1)

\* `a ^ b` on u32
bitxor(a, b) == U32(xor_bits(a.hi, b.hi, LimbBits), xor_bits(a.lo, b.lo, LimbBits))

\* `1 << k` on u32, 0 <= k < 32
shl1(k) == IF k < LimbBits THEN U32(0, 2 ^ k) ELSE U32(2 ^ (k - LimbBits), 0)

-----------------------------------------------------------------------------
(* SpongeAction and its serialization.                                     *)

Absorb(v) == [tag |-> "Absorb", v |-> v]
Squeeze(v) == [tag |-> "Squeeze", v |-> v]

\* a plausible slip: the direction flag put on bit 30
serialize_bit30(action) ==
    IF action.tag = "Absorb" THEN bitxor(shl1(TopBit - 1), action.v) ELSE action.v

serialize(action) ==
    IF action.tag = "Absorb" THEN bitxor(shl1(TopBit), action.v) ELSE action.v

-----------------------------------------------------------------------------
(* The sponge as a value: the fields the methods read and write.           *)

Self ==
    [absorb_pos |-> absorb_pos, squeeze_pos |-> squeeze_pos, log |-> log,
     trace |-> trace, hashed |-> hashed, capacity |-> capacity,
     panicked |-> panicked, sep |-> sep, ret |-> <<>>]

Ev(f, x, y) == [f |-> f, x |-> x, y |-> y]

Mutators == {"permute", "add_rate_element", "initialize_capacity"}

\* the state-changing calls among a sequence of recorded calls
RECURSIVE Mutations(_)
Mutations(t) ==
    IF t = <<>> THEN <<>>
    ELSE LET r == Mutations(SubSeq(t, 1, Len(t) - 1))
         IN  IF t[Len(t)].f \in Mutators THEN Append(r, t[Len(t)]) ELSE r

\* the signal held by rate slot `offset` after the calls recorded in t
Slot(offset, t) == [slot |-> offset, ver |-> Len(Mutations(t))]

(* Required methods: each records its call.                                *)

set_absorb_pos(s, new_pos) ==
    [s EXCEPT !.absorb_pos = new_pos,
              !.trace = Append(@, Ev("set_absorb_pos", new_pos, 0))]

set_squeeze_pos(s, new_pos) ==
    [s EXCEPT !.squeeze_pos = new_pos,
              !.trace = Append(@, Ev("set_squeeze_pos", new_pos, 0))]

permute(s) == [s EXCEPT !.trace = Append(@, Ev("permute", 0, 0))]

add_rate_element(s, offset, value) ==
    [s EXCEPT !.trace = Append(@, Ev("add_rate_element", offset, value))]

\* returns the signal in s.ret
read_rate_element(s, offset) ==
    [s EXCEPT !.ret = Slot(offset, s.trace),
              !.trace = Append(@, Ev("read_rate_element", offset, 0))]

add_log(s, action) == [s EXCEPT !.log = Append(@, action)]

get_log(s) == s.log

tag_hasher(items) == [hash_of |-> items]

serialized_domain_separator(s) == s.sep

initialize_capacity(s, cap) ==
    [s EXCEPT !.capacity = Append(@, cap),
              !.trace = Append(@, Ev("initialize_capacity", Len(s.capacity) + 1, 0))]

-----------------------------------------------------------------------------
(* TSpongePrivate: the provided methods.                                   *)

\* a plausible slip: the cursor is not reset after the permutation
absorb_one_no_reset(s, input) ==
    LET s1 == IF s.absorb_pos = rate THEN permute(s) ELSE s
        s2 == add_rate_element(s1, s1.absorb_pos, input)
        s3 == set_absorb_pos(s2, s2.absorb_pos + 1)
    IN  set_squeeze_pos(s3, rate)

\* a plausible slip: the pending squeeze buffer is not invalidated
absorb_one_keeps_squeeze(s, input) ==
    LET s1 == IF s.absorb_pos = rate THEN set_absorb_pos(permute(s), 0) ELSE s
        s2 == add_rate_element(s1, s1.absorb_pos, input)
    IN  set_absorb_pos(s2, s2.absorb_pos + 1)

\* a plausible slip: the permutation runs as soon as the rate is full
absorb_one_permutes_when_full(s, input) ==
    LET s2 == add_rate_element(s, s.absorb_pos, input)
        s3 == set_absorb_pos(s2, s2.absorb_pos + 1)
        s4 == IF s3.absorb_pos = rate THEN set_absorb_pos(permute(s3), 0) ELSE s3
    IN  set_squeeze_pos(s4, rate)

absorb_one(s, input) ==
    LET s1 == IF s.absorb_pos = rate THEN set_absorb_pos(permute(s), 0) ELSE s
        s2 == add_rate_element(s1, s1.absorb_pos, input)
        s3 == set_absorb_pos(s2, s2.absorb_pos + 1)
    IN  set_squeeze_pos(s3, rate)

\* a plausible slip: the read cursor is not reset after the permutation
squeeze_one_no_reset(s) ==
    LET s1 == IF s.squeeze_pos = rate THEN set_absorb_pos(permute(s), 0) ELSE s
        s2 == read_rate_element(s1, s1.squeeze_pos)
    IN  set_squeeze_pos(s2, s2.squeeze_pos + 1)

\* a plausible slip: the wrong cursor decides whether to permute
squeeze_one_checks_absorb_pos(s) ==
    LET s1 == IF s.absorb_pos = rate
              THEN set_squeeze_pos(set_absorb_pos(permute(s), 0), 0)
              ELSE s
        s2 == read_rate_element(s1, s1.squeeze_pos)
    IN  set_squeeze_pos(s2, s2.squeeze_pos + 1)

\* a plausible slip: the write cursor is not reset after the permutation
squeeze_one_keeps_absorb_pos(s) ==
    LET s1 == IF s.squeeze_pos = rate THEN set_squeeze_pos(permute(s), 0) ELSE s
        s2 == read_rate_element(s1, s1.squeeze_pos)
    IN  set_squeeze_pos(s2, s2.squeeze_pos + 1)

\* the result is left in .ret
squeeze_one(s) ==
    LET s1 == IF s.squeeze_pos = rate
              THEN set_squeeze_pos(set_absorb_pos(permute(s), 0), 0)
              ELSE s
        s2 == read_rate_element(s1, s1.squeeze_pos)
    IN  set_squeeze_pos(s2, s2.squeeze_pos + 1)

\* `*last += next` on u32: panics on overflow in a build with overflow
\* checks, wraps otherwise
add_assign(r, next) ==
    LET k == Len(r.acc)
        sum == wide_add(r.acc[k].v, next.v)
    IN  IF Overflows(sum) /\ overflow_checks
        THEN [r EXCEPT !.panic = TRUE]
        ELSE [r EXCEPT !.acc[k].v = wrap(sum)]

push(r, n) == [r EXCEPT !.acc = Append(@, n)]

\* a plausible slip: `*last = next` for two absorbs in a row
fold_step_assigns(r, n) ==
    IF r.panic THEN r
    ELSE IF r.acc # <<>>
    THEN LET action == r.acc[Len(r.acc)]
         IN  CASE action.tag = "Absorb" /\ n.tag = "Absorb" ->
                      [r EXCEPT !.acc[Len(r.acc)].v = n.v]
               [] action.tag = "Absorb" /\ n.tag = "Squeeze" -> push(r, n)
               [] action.tag = "Squeeze" /\ n.tag = "Absorb" -> push(r, n)
               [] action.tag = "Squeeze" /\ n.tag = "Squeeze" -> add_assign(r, n)
    ELSE push(r, n)

\* the closure folded over the log; r.panic is set once an addition panicked
fold_step(r, n) ==
    IF r.panic THEN r
    ELSE IF r.acc # <<>>
    THEN LET action == r.acc[Len(r.acc)]
         IN  CASE action.tag = "Absorb" /\ n.tag = "Absorb" -> add_assign(r, n)
               [] action.tag = "Absorb" /\ n.tag = "Squeeze" -> push(r, n)
               [] action.tag = "Squeeze" /\ n.tag = "Absorb" -> push(r, n)
               [] action.tag = "Squeeze" /\ n.tag = "Squeeze" -> add_assign(r, n)
    ELSE push(r, n)

\* get_log().iter().fold(vec![], ...)
RECURSIVE fold(_)
fold(l) ==
    IF l = <<>> THEN [acc |-> <<>>, panic |-> FALSE]
    ELSE fold_step(fold(SubSeq(l, 1, Len(l) - 1)), l[Len(l)])

\* .iter().map(|action| action.serialize()).collect()
map_serialize(acc) == [i \in 1 .. Len(acc) |-> serialize(acc[i])]

\* a plausible slip: the domain separator is not appended
finalize_no_separator(s) ==
    LET r == fold(get_log(s))
    IN  IF r.panic THEN [s EXCEPT !.panicked = TRUE]
        ELSE LET preparerd_tag == map_serialize(r.acc)
             IN  initialize_capacity([s EXCEPT !.hashed = Append(@, preparerd_tag)],
                                     tag_hasher(preparerd_tag))

\* a plausible slip: the coalesced entries are stored back into the log
finalize_compacts_log(s) ==
    LET r == fold(get_log(s))
    IN  IF r.panic THEN [s EXCEPT !.panicked = TRUE]
        ELSE LET preparerd_tag == map_serialize(r.acc) \o serialized_domain_separator(s)
             IN  initialize_capacity([s EXCEPT !.hashed = Append(@, preparerd_tag),
                                               !.log = r.acc],
                                     tag_hasher(preparerd_tag))

finalize(s) ==
    LET r == fold(get_log(s))
    IN  IF r.panic THEN [s EXCEPT !.panicked = TRUE]
        ELSE LET preparerd_tag == map_serialize(r.acc) \o serialized_domain_separator(s)
             IN  initialize_capacity([s EXCEPT !.hashed = Append(@, preparerd_tag)],
                                     tag_hasher(preparerd_tag))

-----------------------------------------------------------------------------
(* TSponge: the public protocol.                                           *)

\* for input in inputs { absorb_one(self, c, input) }
RECURSIVE absorb_each(_, _)
absorb_each(s, inputs) ==
    IF inputs = <<>> THEN s
    ELSE absorb_each(absorb_one(s, Head(inputs)), Tail(inputs))

\* a plausible slip: the empty batch is logged too
absorb_logs_empty(s, inputs) ==
    absorb_each(add_log(s, Absorb(as_u32(Len(inputs)))), inputs)

\* a plausible slip: one log entry per element
RECURSIVE absorb_logs_each(_, _)
absorb_logs_each(s, inputs) ==
    IF inputs = <<>> THEN s
    ELSE absorb_logs_each(absorb_one(add_log(s, Absorb(as_u32(1))), Head(inputs)),
                          Tail(inputs))

absorb(s, inputs) ==
    IF Len(inputs) = 0 THEN s
    ELSE absorb_each(add_log(s, Absorb(as_u32(Len(inputs)))), inputs)

\* (0..length).map(|_| squeeze_one(self, c)).collect(): the collected
\* signals are left in .ret
RECURSIVE squeeze_collect(_, _, _)
squeeze_collect(s, k, out) ==
    IF k = 0 THEN [s EXCEPT !.ret = out]
    ELSE LET s1 == squeeze_one(s)
         IN  squeeze_collect(s1, k - 1, Append(out, s1.ret))

\* a plausible slip: every squeeze call starts with a fresh permutation
squeeze_permutes_first(s, length) ==
    IF length = 0 THEN [s EXCEPT !.ret = <<>>]
    ELSE squeeze_collect(set_squeeze_pos(add_log(s, Squeeze(as_u32(length))), rate),
                         length, <<>>)

squeeze(s, length) ==
    IF length = 0 THEN [s EXCEPT !.ret = <<>>]
    ELSE squeeze_collect(add_log(s, Squeeze(as_u32(length))), length, <<>>)

TSponge_finalize(s) == finalize(s)

-----------------------------------------------------------------------------
(* The state machine: a sponge and the calls its owner makes on it.        *)

\* the separators a sponge is constructed with
DomainSeparators == {<<>>, <<U32(0, 2)>>}

\* TSponge::new / TSpongePrivate::new: cursors at 0, log empty
Init ==
    /\ rate \in 1 .. MaxRate
    /\ sep \in DomainSeparators
    /\ overflow_checks \in BOOLEAN
    /\ absorb_pos = 0
    /\ squeeze_pos = 0
    /\ log = <<>>
    /\ trace = <<>>
    /\ hashed = <<>>
    /\ capacity = <<>>
    /\ panicked = FALSE
    /\ nin = 0
    /\ calls = <<>>

\* the sponge becomes t; the call is remembered
Commit(t, op, n) ==
    /\ absorb_pos' = t.absorb_pos
    /\ squeeze_pos' = t.squeeze_pos
    /\ log' = t.log
    /\ trace' = t.trace
    /\ hashed' = t.hashed
    /\ capacity' = t.capacity
    /\ panicked' = t.panicked
    /\ calls' = Append(calls, [op |-> op, n |-> n, pre |-> Self, ret |-> t.ret])
    /\ UNCHANGED <<rate, sep, overflow_checks>>

CanCall == ~panicked /\ Len(calls) < MaxCalls

\* Poseidon::absorb: the caller hands in n fresh signals
Poseidon_absorb ==
    \E n \in 0 .. MaxLen :
        /\ CanCall
        /\ Commit(absorb(Self, [i \in 1 .. n |-> nin + i]), "absorb", n)
        /\ nin' = nin + n

\* Poseidon::squeeze
Poseidon_squeeze ==
    \E n \in 0 .. MaxLen :
        /\ CanCall
        /\ Commit(squeeze(Self, n), "squeeze", n)
        /\ nin' = nin

\* Poseidon::finalize
Poseidon_finalize ==
    /\ CanCall
    /\ Commit(TSponge_finalize(Self), "finalize", 0)
    /\ nin' = nin

Next == Poseidon_absorb \/ Poseidon_squeeze \/ Poseidon_finalize

Spec == Init /\ [][Next]_vars

-----------------------------------------------------------------------------
(* finalize as a function of the action log.  The log is drawn over the    *)
(* whole u32 range: Absorb(v) is what absorb logs for a batch whose length *)
(* is v modulo 2^32.  finalize reads the log and the separator only.       *)

\* 1, 2^30, 2^31 - 1, 2^31 + 1
CountSamples ==
    {U32(0, 1), U32(2 ^ (LimbBits - 2), 0),
     U32(2 ^ (LimbBits - 1) - 1, Limb - 1), U32(2 ^ (LimbBits - 1), 1)}

LogEntries ==
    {Absorb(v) : v \in CountSamples} \cup {Squeeze(v) : v \in CountSamples}

Logs == UNION {[1 .. k -> LogEntries] : k \in 0 .. MaxLogLen}

\* finalize does not read the rate or the cursors
InitFin ==
    /\ rate = 1
    /\ sep \in DomainSeparators
    /\ overflow_checks \in BOOLEAN
    /\ absorb_pos = 0
    /\ squeeze_pos = 0
    /\ log \in Logs
    /\ trace = <<>>
    /\ hashed = <<>>
    /\ capacity = <<>>
    /\ panicked = FALSE
    /\ nin = 0
    /\ calls = <<>>

NextFin == Poseidon_finalize

SpecFin == InitFin /\ [][NextFin]_vars

-----------------------------------------------------------------------------
(* The calls made so far.                                                  *)

\* the sponge after the k-th call
Post(k) == IF k < Len(calls) THEN calls[k + 1].pre ELSE Self

\* the required-method calls the k-th call made
Events(k) == SubSeq(Post(k).trace, Len(calls[k].pre.trace) + 1, Len(Post(k).trace))

Count(t, f) == Cardinality({i \in DOMAIN t : t[i].f = f})

IsBatch(k) == calls[k].op \in {"absorb", "squeeze"}

-----------------------------------------------------------------------------
(* C1: with rate >= 1 and both cursors 0 at construction, after any        *)
(* sequence of absorb, squeeze and finalize calls both cursors are in      *)
(* 0..rate, every value a cursor was set to is in 0..rate, and every slot  *)
(* index passed to add_rate_element or read_rate_element is in 0..rate-1.  *)
C1_CursorBounds ==
    /\ absorb_pos \in 0 .. rate
    /\ squeeze_pos \in 0 .. rate
    /\ \A i \in DOMAIN trace :
        /\ trace[i].f \in {"set_absorb_pos", "set_squeeze_pos"}
              => trace[i].x \in 0 .. rate
        /\ trace[i].f \in {"add_rate_element", "read_rate_element"}
              => trace[i].x \in 0 .. rate - 1

\* an absorb and a squeeze have each wrapped around the rate
C1_Witness ==
    /\ Len(calls) = MaxCalls
    /\ \E k \in DOMAIN calls :
        calls[k].op = "absorb" /\ Count(Events(k), "permute") >= 1
    /\ \E k \in DOMAIN calls :
        calls[k].op = "squeeze" /\ calls[k].n > rate
    /\ \E k \in DOMAIN calls : calls[k].op = "finalize"

-----------------------------------------------------------------------------
(* C2 as stated: after any absorb call returns, squeeze_pos = rate.        *)
C2_AnyAbsorbForcesSqueezePos ==
    \A k \in DOMAIN calls :
        calls[k].op = "absorb" => Post(k).squeeze_pos = rate

(* C2, amended: after any absorb call with at least one input returns,     *)
(* squeeze_pos = rate, whatever the cursors were before the call.          *)
C2_NonEmptyAbsorbForcesSqueezePos ==
    \A k \in DOMAIN calls :
        calls[k].op = "absorb" /\ calls[k].n >= 1 => Post(k).squeeze_pos = rate

\* a non-empty absorb made while a squeeze buffer was half read
C2_Witness ==
    \E k \in DOMAIN calls :
        /\ calls[k].op = "absorb" /\ calls[k].n >= 1
        /\ calls[k].pre.squeeze_pos \in 1 .. rate - 1
        /\ Post(k).squeeze_pos = rate

-----------------------------------------------------------------------------
(* C3: absorb of an empty list and squeeze of length 0 leave the cursors,  *)
(* the log, and the rate and capacity contents unchanged (no required      *)
(* method is called, so no permutation runs), and squeeze(0) returns the   *)
(* empty sequence.                                                         *)
C3_EmptyBatchIsNoOp ==
    \A k \in DOMAIN calls :
        IsBatch(k) /\ calls[k].n = 0 =>
            /\ Post(k).absorb_pos = calls[k].pre.absorb_pos
            /\ Post(k).squeeze_pos = calls[k].pre.squeeze_pos
            /\ Post(k).log = calls[k].pre.log
            /\ Post(k).trace = calls[k].pre.trace
            /\ Post(k).capacity = calls[k].pre.capacity
            /\ Post(k).hashed = calls[k].pre.hashed
            /\ calls[k].ret = <<>>

\* an empty absorb and an empty squeeze on a sponge that is in use
C3_Witness ==
    /\ \E k \in DOMAIN calls :
        /\ calls[k].op = "absorb" /\ calls[k].n = 0
        /\ calls[k].pre.log # <<>> /\ calls[k].pre.absorb_pos > 0
    /\ \E k \in DOMAIN calls :
        /\ calls[k].op = "squeeze" /\ calls[k].n = 0
        /\ calls[k].pre.log # <<>>

-----------------------------------------------------------------------------
(* C4: an absorb of n >= 1 inputs appends exactly Absorb(n) to the log, a  *)
(* squeeze of length n >= 1 exactly Squeeze(n); the earlier entries stay.  *)
C4_OneLogEntryPerBatch ==
    \A k \in DOMAIN calls :
        IsBatch(k) /\ calls[k].n >= 1 =>
            Post(k).log =
                Append(calls[k].pre.log,
                       IF calls[k].op = "absorb"
                       THEN Absorb(U32(0, calls[k].n))
                       ELSE Squeeze(U32(0, calls[k].n)))

\* a batch longer than the rate, on a sponge whose log is not empty
C4_Witness ==
    /\ \E k \in DOMAIN calls :
        /\ calls[k].op = "absorb" /\ calls[k].n > rate
        /\ Count(Events(k), "permute") >= 1
        /\ calls[k].pre.log # <<>>
    /\ \E k \in DOMAIN calls :
        /\ calls[k].op = "squeeze" /\ calls[k].n > rate
        /\ Count(Events(k), "permute") >= 2


-----------------------------------------------------------------------------
(* Run-length compression and the encoding of an entry, stated without     *)
(* the fold: what the tag is specified to be derived from.                 *)

\* maximal runs of same-direction entries, each with the exact sum of its
\* counts (the hi limb is not reduced)
RECURSIVE RunLength(_)
RunLength(l) ==
    IF Len(l) <= 1 THEN l
    ELSE LET r == RunLength(Tail(l))
         IN  IF Head(l).tag = Head(r).tag
             THEN <<[tag |-> Head(l).tag, v |-> wide_add(Head(l).v, Head(r).v)]>>
                  \o Tail(r)
             ELSE <<Head(l)>> \o r

Fits31(v) == v.hi < 2 ^ (LimbBits - 1)

\* the count in the low 31 bits, the direction in bit 31
Encode(e) ==
    IF e.tag = "Absorb" THEN U32(e.v.hi + 2 ^ (LimbBits - 1), e.v.lo) ELSE e.v

Decode(w) ==
    IF w.hi >= 2 ^ (LimbBits - 1)
    THEN Absorb(U32(w.hi - 2 ^ (LimbBits - 1), w.lo))
    ELSE Squeeze(w)

EncodeAll(l) == [i \in 1 .. Len(l) |-> Encode(l[i])]

\* the log with entries i and i+1 replaced by one entry for both batches
MergeAt(l, i) ==
    SubSeq(l, 1, i - 1)
    \o <<[tag |-> l[i].tag, v |-> wrap(wide_add(l[i].v, l[i + 1].v))]>>
    \o SubSeq(l, i + 2, Len(l))

Finalized(k) == calls[k].op = "finalize" /\ ~Post(k).panicked

-----------------------------------------------------------------------------
(* C5: a finalize call hashes the same sequence, and writes the same tag,  *)
(* as it would on the sponge whose log has two consecutive same-direction  *)
(* batches made as one batch of the summed length.                         *)
C5_SplitIndependentTag ==
    \A k \in DOMAIN calls :
        Finalized(k) =>
            \A i \in 1 .. Len(calls[k].pre.log) - 1 :
                calls[k].pre.log[i].tag = calls[k].pre.log[i + 1].tag =>
                    LET one == finalize([calls[k].pre EXCEPT
                                            !.log = MergeAt(calls[k].pre.log, i)])
                    IN  /\ ~one.panicked
                        /\ one.hashed = Post(k).hashed
                        /\ one.capacity = Post(k).capacity

\* absorb 2, absorb 1, finalize: the run that one absorb of 3 replaces
C5_Witness ==
    /\ Len(calls) = 3
    /\ Finalized(3)
    /\ calls[1].op = "absorb" /\ calls[1].n = 2
    /\ calls[2].op = "absorb" /\ calls[2].n = 1
    /\ Len(hashed) = 1

-----------------------------------------------------------------------------
(* C6: when a non-empty absorb is immediately followed by a squeeze of     *)
(* length >= 1, exactly one permute call lies between the absorb's last    *)
(* add_rate_element and the squeeze's first read_rate_element.             *)

From(k) == Len(calls[k].pre.trace)
To(k) == Len(Post(k).trace)
At(k, f) == {i \in From(k) + 1 .. To(k) : trace[i].f = f}
Last(S) == CHOOSE i \in S : \A j \in S : j <= i
First(S) == CHOOSE i \in S : \A j \in S : i <= j

C6_OnePermutationBetween ==
    \A k \in 1 .. Len(calls) - 1 :
        /\ calls[k].op = "absorb" /\ calls[k].n >= 1
        /\ calls[k + 1].op = "squeeze" /\ calls[k + 1].n >= 1
        => /\ At(k, "add_rate_element") # {}
           /\ At(k + 1, "read_rate_element") # {}
           /\ Cardinality({i \in Last(At(k, "add_rate_element")) + 1
                                 .. First(At(k + 1, "read_rate_element")) - 1 :
                             trace[i].f = "permute"}) = 1

\* an absorb that started with a half-read squeeze buffer, then a squeeze
C6_Witness ==
    \E k \in 1 .. Len(calls) - 1 :
        /\ calls[k].op = "absorb" /\ calls[k].n >= 1
        /\ calls[k + 1].op = "squeeze" /\ calls[k + 1].n >= 1
        /\ calls[k].pre.squeeze_pos \in 1 .. rate - 1

-----------------------------------------------------------------------------
(* C7: on a fresh sponge, absorb of n elements then squeeze of n, n <=     *)
(* rate: permute is called exactly once, not during the absorb, and the    *)
(* outputs are slots 0..n-1 of the state after the n writes and that one   *)
(* permutation.                                                            *)

AbsorbThenSqueeze ==
    /\ Len(calls) >= 2
    /\ calls[1].op = "absorb" /\ calls[2].op = "squeeze"
    /\ calls[1].n = calls[2].n
    /\ calls[1].n <= rate

OncePermuted ==
    LET n == calls[1].n
    IN  /\ Count(Post(2).trace, "permute") = 1
        /\ Count(Events(1), "permute") = 0
        /\ Mutations(Post(2).trace) =
               [i \in 1 .. n |-> Ev("add_rate_element", i - 1, i)]
               \o <<Ev("permute", 0, 0)>>
        /\ calls[2].ret = [i \in 1 .. n |-> [slot |-> i - 1, ver |-> n + 1]]

\* C7 as stated: for all n with 0 <= n <= rate
C7_FromZero == AbsorbThenSqueeze => OncePermuted

(* C7, amended: for all n with 1 <= n <= rate.                             *)
C7_AbsorbSqueezeOnePermutation ==
    AbsorbThenSqueeze /\ calls[1].n >= 1 => OncePermuted

\* the whole rate absorbed and squeezed, rate 2
C7_Witness == AbsorbThenSqueeze /\ calls[1].n = rate /\ rate >= 2

-----------------------------------------------------------------------------
(* C8: finalize calls tag_hasher once, with the encodings of the           *)
(* run-length compressed log in log order followed by the serialized       *)
(* domain separator, and passes the result to initialize_capacity; for     *)
(* rate 2, absorb 3, squeeze 2, finalize, the sequence is 0x80000003,      *)
(* 0x00000002 and then the separator.                                      *)
C8_TagInput ==
    /\ \A k \in DOMAIN calls :
        Finalized(k) =>
            LET items == EncodeAll(RunLength(calls[k].pre.log)) \o sep
            IN  /\ Post(k).hashed = Append(calls[k].pre.hashed, items)
                /\ Post(k).capacity = Append(calls[k].pre.capacity, tag_hasher(items))
    /\ /\ rate = 2 /\ Len(calls) = 3
       /\ calls[1].op = "absorb" /\ calls[1].n = 3
       /\ calls[2].op = "squeeze" /\ calls[2].n = 2
       /\ calls[3].op = "finalize"
       => hashed = << <<U32(32768, 3), U32(0, 2)>> \o sep >>

\* the scenario, with a separator that is not empty
C8_Witness ==
    /\ rate = 2 /\ Len(calls) = 3 /\ sep # <<>>
    /\ calls[1].op = "absorb" /\ calls[1].n = 3
    /\ calls[2].op = "squeeze" /\ calls[2].n = 2
    /\ Finalized(3)
    /\ Len(capacity) = 1


-----------------------------------------------------------------------------
(* C9: for every count v below 2^31, serialize(Absorb(v)) is v with bit 31 *)
(* set and serialize(Squeeze(v)) is v with bit 31 clear, so the top bit    *)
(* and the low 31 bits of the word give back the variant and the count.    *)
(* Checked on the entries of the log and on the words finalize hashes.     *)
C9_SerializeRoundTrip ==
    /\ \A i \in DOMAIN log :
        Fits31(log[i].v) =>
            /\ serialize(log[i]) = Encode(log[i])
            /\ Decode(serialize(log[i])) = log[i]
    /\ \A k \in DOMAIN calls :
        Finalized(k) =>
            LET acc == fold(calls[k].pre.log).acc
                words == Post(k).hashed[Len(Post(k).hashed)]
            IN  \A j \in DOMAIN acc :
                    Fits31(acc[j].v) => Decode(words[j]) = acc[j]

\* finalize hashed Absorb(2^31 - 1) and Squeeze(2^30)
C9_Witness ==
    /\ Len(calls) >= 1
    /\ Finalized(1)
    /\ calls[1].pre.log = <<Absorb(U32(32767, 65535)), Squeeze(U32(16384, 0))>>
    /\ hashed[1] = <<U32(65535, 65535), U32(16384, 0)>> \o sep

-----------------------------------------------------------------------------
(* C10: when finalize coalesces batches, each below 2^31, into a run whose *)
(* summed count is 2^31 or more, the call fails and derives no tag; when   *)
(* it derives a tag, every word hashed for a run has the run's direction   *)
(* in its top bit and the run's exact summed count in its low 31 bits.     *)
C10_FailsFastOnOverflow ==
    \A k \in DOMAIN calls :
        /\ calls[k].op = "finalize"
        /\ \A i \in DOMAIN calls[k].pre.log : Fits31(calls[k].pre.log[i].v)
        => LET runs == RunLength(calls[k].pre.log)
           IN  IF \E j \in DOMAIN runs : ~Fits31(runs[j].v)
               THEN /\ Post(k).panicked
                    /\ Post(k).hashed = calls[k].pre.hashed
                    /\ Post(k).capacity = calls[k].pre.capacity
               ELSE /\ ~Post(k).panicked
                    /\ Post(k).hashed[Len(Post(k).hashed)] = EncodeAll(runs) \o sep


-----------------------------------------------------------------------------
(* C11: a sponge constructed with another serialized domain separator and  *)
(* driven by the same calls passes tag_hasher a different sequence at      *)
(* finalize, and so (tag_hasher being injective) writes a different tag.   *)

\* separators another sponge may have been constructed with
OtherSeparators ==
    DomainSeparators
    \cup {<<U32(0, 1)>>, <<U32(32768, 3)>>, <<U32(0, 2), U32(0, 2)>>}

LastOf(q) == q[Len(q)]

C11_SeparatorChangesTag ==
    \A k \in DOMAIN calls :
        Finalized(k) =>
            \A d \in OtherSeparators :
                d # sep =>
                    LET other == finalize([calls[k].pre EXCEPT !.sep = d])
                    IN  /\ LastOf(other.hashed) # LastOf(Post(k).hashed)
                        /\ LastOf(other.capacity) # LastOf(Post(k).capacity)

\* finalize after an absorb and a squeeze, the separator not empty
C11_Witness ==
    /\ Len(calls) = 3 /\ Finalized(3) /\ sep # <<>>
    /\ calls[1].op = "absorb" /\ calls[1].n >= 1
    /\ calls[2].op = "squeeze" /\ calls[2].n >= 1
    /\ LastOf(capacity) = tag_hasher(LastOf(hashed))

-----------------------------------------------------------------------------
(* C12: over any sequence of calls initialize_capacity is called only      *)
(* inside finalize and at most once in all, also when finalize is called   *)
(* again.                                                                  *)
C12_CapacityWrittenOnce ==
    /\ Count(trace, "initialize_capacity") <= 1
    /\ Len(capacity) <= 1
    /\ \A k \in DOMAIN calls :
        calls[k].op # "finalize" => Count(Events(k), "initialize_capacity") = 0


-----------------------------------------------------------------------------
(* C13: every rate slot a squeeze returns (squeeze_one returns what        *)
(* read_rate_element gives it) is read after a permutation that follows    *)
(* the most recent add_rate_element: the last call before the read that    *)
(* changed the rate slots exists and is a permute.                         *)

RateChanges == {"permute", "add_rate_element"}

C13_SqueezeReadsPermutedSlots ==
    \A i \in DOMAIN trace :
        trace[i].f = "read_rate_element" =>
            LET before == {j \in 1 .. i - 1 : trace[j].f \in RateChanges}
            IN  before # {} /\ trace[Last(before)].f = "permute"

-----------------------------------------------------------------------------
(* C14: permute is called only as the first step of a single-element       *)
(* absorb that finds absorb_pos = rate, followed at once by                *)
(* set_absorb_pos(0) and then the slot write, or as the first step of a    *)
(* single-element squeeze that finds squeeze_pos = rate, followed at once  *)
(* by set_absorb_pos(0), set_squeeze_pos(0) and then the slot read; no     *)
(* other call, finalize included, invokes it.                              *)

\* the value the cursor set by f holds just before trace position i
CursorBefore(i, f) ==
    LET S == {j \in 1 .. i - 1 : trace[j].f = f}
    IN  IF S = {} THEN 0 ELSE trace[Last(S)].x

\* the public call during which trace position i was recorded
CallOf(i) == CHOOSE k \in DOMAIN calls : From(k) < i /\ i <= To(k)

\* position i starts a single-element step of call k
StartsStep(i, k) == i = From(k) + 1 \/ trace[i - 1].f = "set_squeeze_pos"

C14_PermuteOnlyAtFullCursor ==
    /\ \A i \in DOMAIN trace :
        trace[i].f = "permute" =>
            LET k == CallOf(i)
            IN  \/ /\ calls[k].op = "absorb"
                   /\ StartsStep(i, k)
                   /\ CursorBefore(i, "set_absorb_pos") = rate
                   /\ i + 2 <= To(k)
                   /\ trace[i + 1] = Ev("set_absorb_pos", 0, 0)
                   /\ trace[i + 2].f = "add_rate_element"
                \/ /\ calls[k].op = "squeeze"
                   /\ StartsStep(i, k)
                   /\ CursorBefore(i, "set_squeeze_pos") = rate
                   /\ i + 3 <= To(k)
                   /\ trace[i + 1] = Ev("set_absorb_pos", 0, 0)
                   /\ trace[i + 2] = Ev("set_squeeze_pos", 0, 0)
                   /\ trace[i + 3].f = "read_rate_element"
    /\ \A k \in DOMAIN calls :
        calls[k].op = "finalize" => Count(Events(k), "permute") = 0

\* permutations in an absorb and in a squeeze, and a finalize
C14_Witness ==
    /\ Len(calls) = 3
    /\ calls[1].op = "absorb" /\ Count(Events(1), "permute") >= 1
    /\ calls[2].op = "finalize"
    /\ calls[3].op = "squeeze" /\ Count(Events(3), "permute") >= 2


-----------------------------------------------------------------------------
(* C15: for a log whose maximal same-direction runs each sum below 2^31,   *)
(* the compressed log finalize builds has no two adjacent entries of the   *)
(* same direction, has the directions of the raw log with repetitions      *)
(* dropped, and gives each entry the sum of the run it replaces; it is     *)
(* what finalize serializes; the empty log compresses to the empty         *)
(* sequence.                                                               *)

Directions(l) == [i \in 1 .. Len(l) |-> l[i].tag]

\* a sequence with every element equal to its predecessor removed
RECURSIVE Dedup(_)
Dedup(q) ==
    IF Len(q) <= 1 THEN q
    ELSE LET r == Dedup(SubSeq(q, 1, Len(q) - 1))
         IN  IF q[Len(q)] = q[Len(q) - 1] THEN r ELSE Append(r, q[Len(q)])

C15_RunLengthCompression ==
    \A k \in DOMAIN calls :
        calls[k].op = "finalize" =>
            LET l == calls[k].pre.log
                runs == RunLength(l)
                acc == fold(l).acc
            IN  (\A j \in DOMAIN runs : Fits31(runs[j].v)) =>
                    /\ ~Post(k).panicked
                    /\ ~fold(l).panic
                    /\ \A j \in 1 .. Len(acc) - 1 : acc[j].tag # acc[j + 1].tag
                    /\ Directions(acc) = Dedup(Directions(l))
                    /\ acc = runs
                    /\ LastOf(Post(k).hashed) = EncodeAll(acc) \o sep
                    /\ (l = <<>> => acc = <<>>)

\* finalize on Absorb(1), Absorb(2^30), Squeeze(1)
C15_Witness ==
    /\ Len(calls) >= 1
    /\ calls[1].op = "finalize"
    /\ calls[1].pre.log = <<Absorb(U32(0, 1)), Absorb(U32(16384, 0)), Squeeze(U32(0, 1))>>
    /\ hashed[1] = <<U32(49152, 1), U32(0, 1)>> \o sep

-----------------------------------------------------------------------------
(* C16: finalize leaves the log, both cursors and the rate slots as they   *)
(* were: the only required method it calls that changes the sponge is      *)
(* initialize_capacity, once.                                              *)
C16_FinalizeWritesOnlyCapacity ==
    \A k \in DOMAIN calls :
        Finalized(k) =>
            /\ Post(k).log = calls[k].pre.log
            /\ Post(k).absorb_pos = calls[k].pre.absorb_pos
            /\ Post(k).squeeze_pos = calls[k].pre.squeeze_pos
            /\ Events(k) = <<Ev("initialize_capacity", Len(calls[k].pre.capacity) + 1, 0)>>
            /\ Post(k).trace = calls[k].pre.trace \o Events(k)

\* finalize on a sponge whose log has two absorbs in a row and whose
\* absorb cursor is inside the rate
C16_Witness ==
    \E k \in DOMAIN calls :
        /\ Finalized(k)
        /\ Len(calls[k].pre.log) = 2
        /\ calls[k].pre.log[1].tag = calls[k].pre.log[2].tag
        /\ calls[k].pre.absorb_pos = 1
        /\ Post(k).log = calls[k].pre.log


-----------------------------------------------------------------------------
(* C17: an absorb of n >= 1 elements that starts with absorb_pos = p calls *)
(* permute floor((p + n - 1) / rate) times and ends with absorb_pos =      *)
(* ((p + n - 1) mod rate) + 1; on a fresh sponge with rate 2, absorb of 3  *)
(* permutes once, between the second and the third write, and the squeeze *)
(* of 2 that follows permutes once more.                                   *)

\* the j-th smallest element of a set of trace positions
Nth(S, j) == CHOOSE i \in S : Cardinality({x \in S : x <= i}) = j

C17_AbsorbPermutationCount ==
    /\ \A k \in DOMAIN calls :
        calls[k].op = "absorb" /\ calls[k].n >= 1 =>
            LET last == calls[k].pre.absorb_pos + calls[k].n - 1
            IN  /\ Count(Events(k), "permute") = last \div rate
                /\ Post(k).absorb_pos = (last % rate) + 1
    /\ /\ rate = 2 /\ Len(calls) >= 2
       /\ calls[1].op = "absorb" /\ calls[1].n = 3
       /\ calls[2].op = "squeeze" /\ calls[2].n = 2
       => /\ Cardinality(At(1, "permute")) = 1
          /\ \A i \in At(1, "permute") :
                /\ Nth(At(1, "add_rate_element"), 2) < i
                /\ i < Nth(At(1, "add_rate_element"), 3)
          /\ Cardinality(At(2, "permute")) = 1

\* rate 2: absorb of 3, squeeze of 2, then an absorb of 3 again
C17_Witness ==
    /\ rate = 2 /\ Len(calls) = 3
    /\ calls[1].op = "absorb" /\ calls[1].n = 3
    /\ calls[2].op = "squeeze" /\ calls[2].n = 2
    /\ calls[3].op = "absorb" /\ calls[3].n = 3
    /\ calls[3].pre.absorb_pos = 0
    /\ absorb_pos = 1

-----------------------------------------------------------------------------
(* C18: two absorbs in a row leave the cursors where one absorb of the     *)
(* concatenated inputs leaves them, with the same required-method calls    *)
(* in the same order (so the same rate contents and permutations); two     *)
(* squeezes in a row return, concatenated, what one squeeze of the summed  *)
(* length returns, with the same cursors and required-method calls.        *)

\* the fresh signals handed to an absorb of n elements on sponge s
Inputs(s, n) == [i \in 1 .. n |-> Count(s.trace, "add_rate_element") + i]

SameButLog(a, b) ==
    /\ a.absorb_pos = b.absorb_pos
    /\ a.squeeze_pos = b.squeeze_pos
    /\ a.trace = b.trace
    /\ a.capacity = b.capacity

C18_BatchSplitEquivalence ==
    \A k \in 1 .. Len(calls) - 1 :
        /\ calls[k].op = "absorb" /\ calls[k + 1].op = "absorb"
           => SameButLog(absorb(calls[k].pre,
                                Inputs(calls[k].pre, calls[k].n + calls[k + 1].n)),
                         Post(k + 1))
        /\ calls[k].op = "squeeze" /\ calls[k + 1].op = "squeeze"
           => LET one == squeeze(calls[k].pre, calls[k].n + calls[k + 1].n)
              IN  /\ SameButLog(one, Post(k + 1))
                  /\ one.ret = calls[k].ret \o calls[k + 1].ret

\* rate 2: an absorb, then squeezes of 1 and of 3, the split falling
\* inside the rate
C18_Witness ==
    /\ rate = 2 /\ Len(calls) = 3
    /\ calls[1].op = "absorb" /\ calls[1].n = 1
    /\ calls[2].op = "squeeze" /\ calls[2].n = 1
    /\ calls[3].op = "squeeze" /\ calls[3].n = 3
    /\ Len(calls[2].ret \o calls[3].ret) = 4


-----------------------------------------------------------------------------
(* C19: between public calls the two cursors are never both inside the     *)
(* buffer: absorb_pos > 0 implies squeeze_pos = rate, that is, squeeze_pos *)
(* < rate implies absorb_pos = 0; so it is before and after every call.    *)
C19_CursorsNotBothMidBuffer ==
    /\ absorb_pos > 0 => squeeze_pos = rate
    /\ squeeze_pos < rate => absorb_pos = 0
    /\ \A k \in DOMAIN calls :
        calls[k].pre.absorb_pos > 0 => calls[k].pre.squeeze_pos = rate

\* an absorb, then a squeeze that stops inside the rate
C19_Witness ==
    /\ Len(calls) >= 2
    /\ calls[1].op = "absorb" /\ calls[1].n >= 1
    /\ calls[2].op = "squeeze" /\ calls[2].n >= 1
    /\ calls[2].pre.absorb_pos > 0
    /\ squeeze_pos \in 1 .. rate - 1
    /\ absorb_pos = 0

-----------------------------------------------------------------------------
(* C20: the sequence finalize passes to tag_hasher determines the          *)
(* compressed log and the separator: a sponge whose (compressed log,       *)
(* separator) pair differs, all counts below 2^31, never passes the same   *)
(* sequence.  The other sponge here is one that made only the first j of   *)
(* the calls logged so far and was constructed with another separator.     *)
C20_TagInputUnambiguous ==
    \A k \in DOMAIN calls :
        Finalized(k) =>
            \A j \in 0 .. Len(calls[k].pre.log) :
                \A d \in OtherSeparators :
                    LET other == [calls[k].pre EXCEPT
                                      !.log = SubSeq(calls[k].pre.log, 1, j),
                                      !.sep = d]
                    IN  <<RunLength(other.log), d>>
                            # <<RunLength(calls[k].pre.log), sep>>
                        => LastOf(finalize(other).hashed) # LastOf(Post(k).hashed)

====
